---- MODULE Spec2Model ----
(***************************************************************************)
(* aw-watcher-zed: the activitywatch-ls language server.                   *)
(*                                                                         *)
(* The model follows activitywatch-ls/src/main.rs: process start-up in     *)
(* main, the document handlers of the LanguageServer impl (kept in the     *)
(* file as a commented block, lines 88-151) and                            *)
(* ActivityWatchLanguageServer::send. send runs in three steps: from the   *)
(* lock of current_file to the built event (or the early return), the      *)
(* blocking heartbeat call, and the update of current_file with which the  *)
(* lock is released. The guard of file_languages is a temporary of one     *)
(* statement in both of its uses: in Spec locking, access and unlocking of *)
(* that map are part of one step; FairSpec takes them one by one, to look  *)
(* at the order of the two locks. ExtensionSpec is the Zed extension of    *)
(* src/lib.rs, which finds or downloads the binary of the server.          *)
(*                                                                         *)
(* In this revision of main.rs main_loop only logs the notifications: the  *)
(* handlers are modelled from the commented block, in which did_open does  *)
(* not call send unless the line marked TODO (129) is enabled; both        *)
(* settings are modelled (send_on_open). ActivityWatchLanguageServer is    *)
(* constructed nowhere in the file: the value current_file starts with is  *)
(* the one of the specification (the empty uri, the start time).           *)
(*                                                                         *)
(* Time is counted in ticks; one second is TicksPerSecond ticks.           *)
(* Variables marked "history" are not state of the program: they record    *)
(* what it did, for the properties at the end of the module.               *)
(***************************************************************************)
EXTENDS Naturals, Integers, Sequences, FiniteSets, TLC

VARIABLES
    phase,           \* position of main: "start", "connected", "bucket", "serving", "exited"
    clock,           \* the wall clock, Local::now()
    bucket_id,       \* ActivityWatchLanguageServer.bucket_id
    current_file,    \* ActivityWatchLanguageServer.current_file (behind its Mutex)
    file_languages,  \* ActivityWatchLanguageServer.file_languages (behind its Mutex)
    project,         \* ActivityWatchLanguageServer.project
    send_on_open,    \* whether did_open ends with self.send(event)
    current_file_lock,   \* the task holding current_file's mutex, 0 when free
    file_languages_lock, \* the task holding file_languages' mutex, 0 when free
    task,            \* per task: the handler it runs and that handler's locals
    dispatched,      \* number of notifications handed to a handler so far
    startup_err,     \* history: the call of main that returned Err, if one did
    opened,          \* history: per uri, the language of its latest didOpen
    last_suppressed, \* history: the latest event the debounce test returned on
    unbuilt,         \* history: events that passed the debounce test, minus events built
    uncalled,        \* history: events built, minus calls of aw_client.heartbeat
    nonwrite_uncalled, \* history: events with is_write false that reached the
                     \* debounce test, minus heartbeat calls for such events
    last_heartbeat,  \* history: the latest call of aw_client.heartbeat
    platform,        \* the extension (lib.rs): zed::current_platform()
    cached_ls_binary_path, \* ActivityWatchExtension.cached_ls_binary_path
    files,           \* the versions whose binary is a file in the extension's directory
    last_call        \* history: the latest call of language_server_binary_path

vars == <<phase, clock, bucket_id, current_file, file_languages, project,
          send_on_open, current_file_lock, file_languages_lock, task,
          dispatched, startup_err, opened, last_suppressed, unbuilt, uncalled,
          nonwrite_uncalled, last_heartbeat,
          platform, cached_ls_binary_path, files, last_call>>

extension == <<platform, cached_ls_binary_path, files, last_call>>

server == <<current_file, file_languages, project, current_file_lock,
            file_languages_lock>>

history == <<opened, last_suppressed, unbuilt, uncalled, nonwrite_uncalled,
             last_heartbeat>>

----------------------------------------------------------------------------
(* Bounds of the model *)

NumTasks == 2
MaxEvents == 3
MaxTime == 2
TicksPerSecond == 2

Tasks == 1..NumTasks

(* Inputs *)

Paths == {"/a", "/b"}
Schemes == {"file"}
Urls == [scheme : Schemes, rest : Paths]
Languages == {"rust", "toml"}
FolderLists == {<<>>, <<"/w1", "/w2">>}
Hostnames == {"host"}

----------------------------------------------------------------------------
(* Option<T>: the empty sequence, or the one-element sequence of the value *)

None == <<>>

Some(x) == <<x>>

IsSome(o) == Len(o) > 0

Unwrap(o) == o[1]

(* serde_json::Map and HashMap: functions on the set of keys present *)

EmptyMap == <<>>

(* Variant: a key that is present keeps its value *)
Insert_IfAbsent(m, k, v) == [x \in (DOMAIN m) \cup {k} |-> IF x \in DOMAIN m THEN m[x] ELSE v]

Insert(m, k, v) == [x \in (DOMAIN m) \cup {k} |-> IF x = k THEN v ELSE m[x]]

Get(m, k) == IF k \in DOMAIN m THEN Some(m[k]) ELSE None

(* uri[url::Position::BeforeUsername..]: what follows "scheme://" *)

UriOf(url) == url.rest

----------------------------------------------------------------------------
(* Constants of the program *)

INTERVAL == 1 * TicksPerSecond

PULSETIME == 60

CLIENT_NAME == "aw-watcher-zed"

BucketIdOf(hostname) == <<CLIENT_NAME, "-bucket_", hostname>>

----------------------------------------------------------------------------
(* Event, CurrentFile *)

Event(uri, is_write, language) ==
    [uri |-> uri, is_write |-> is_write, language |-> language]

NoEvent == Event("", FALSE, None)

CurrentFile(uri, timestamp) == [uri |-> uri, timestamp |-> timestamp]

(* The value current_file starts with: the empty uri and the start time *)

NewCurrentFile(start) == CurrentFile("", start)

(* A task: the handler's position, and the locals of send. cached is     *)
(* history: the entry file_languages held for event.uri when send read it *)
IdleTask ==
    [pc |-> "idle", event |-> NoEvent, now |-> 0, aw_event |-> None,
     cached |-> None]

----------------------------------------------------------------------------
InitServer ==
    /\ phase = "start"
    /\ clock = 0
    /\ bucket_id = <<>>
    /\ current_file = NewCurrentFile(0)
    /\ file_languages = EmptyMap
    /\ project = None
    /\ send_on_open \in BOOLEAN
    /\ current_file_lock = 0
    /\ file_languages_lock = 0
    /\ task = [t \in Tasks |-> IdleTask]
    /\ dispatched = 0
    /\ startup_err = None
    /\ opened = EmptyMap
    /\ last_suppressed = None
    /\ unbuilt = 0
    /\ uncalled = 0
    /\ nonwrite_uncalled = 0
    /\ last_heartbeat = None

(* The language server has been started by an extension on HostPlatform    *)
(* that has resolved nothing yet                                           *)
HostPlatform == <<"Linux", "X8664">>

Init ==
    /\ InitServer
    /\ platform = HostPlatform
    /\ cached_ls_binary_path = None
    /\ files = {}
    /\ last_call = None

----------------------------------------------------------------------------
(* The wall clock advances on its own *)

Tick ==
    /\ clock < MaxTime
    /\ clock' = clock + 1
    /\ UNCHANGED extension
    /\ UNCHANGED <<phase, bucket_id, send_on_open, task, dispatched, startup_err,
                   server, history>>

----------------------------------------------------------------------------
(* main *)

(* AwClient::new(host, port, CLIENT_NAME); on Err main prints and returns *)
AwClientNew(ok) ==
    /\ phase = "start"
    /\ phase' = IF ok THEN "connected" ELSE "exited"
    /\ startup_err' = IF ok THEN startup_err ELSE Some("AwClient::new")
    /\ UNCHANGED extension
    /\ UNCHANGED <<clock, bucket_id, send_on_open, task, dispatched, server, history>>

(* Variant: the Err of create_bucket_simple is printed and main goes on *)
CreateBucket_GoOnErr(hostname, ok) ==
    /\ phase = "connected"
    /\ bucket_id' = BucketIdOf(hostname)
    /\ phase' = "bucket"
    /\ startup_err' = IF ok THEN startup_err ELSE Some("create_bucket_simple")
    /\ UNCHANGED extension
    /\ UNCHANGED <<clock, send_on_open, task, dispatched, server, history>>

(* create_bucket_simple(&bucket_id, "app.editor.activity"); on Err main   *)
(* prints and returns                                                      *)
CreateBucket(hostname, ok) ==
    /\ phase = "connected"
    /\ bucket_id' = BucketIdOf(hostname)
    /\ phase' = IF ok THEN "bucket" ELSE "exited"
    /\ startup_err' = IF ok THEN startup_err ELSE Some("create_bucket_simple")
    /\ UNCHANGED extension
    /\ UNCHANGED <<clock, send_on_open, task, dispatched, server, history>>

(* Variant: the last workspace folder is kept *)
Initialize_LastFolder(folders, ok) ==
    /\ phase = "bucket"
    /\ phase' = IF ok THEN "serving" ELSE "exited"
    /\ startup_err' = IF ok THEN startup_err ELSE Some("connection.initialize")
    /\ project' = IF ok /\ IsSome(folders) /\ Len(Unwrap(folders)) > 0
                  THEN Some(Unwrap(folders)[Len(Unwrap(folders))]) ELSE project
    /\ UNCHANGED extension
    /\ UNCHANGED <<clock, bucket_id, current_file, file_languages, send_on_open,
                   current_file_lock, file_languages_lock, task, dispatched, history>>

(* connection.initialize, and LanguageServer::initialize keeping the first *)
(* workspace folder; folders is the Option params.workspace_folders        *)
Initialize(folders, ok) ==
    /\ phase = "bucket"
    /\ phase' = IF ok THEN "serving" ELSE "exited"
    /\ startup_err' = IF ok THEN startup_err ELSE Some("connection.initialize")
    /\ project' = IF ok /\ IsSome(folders) /\ Len(Unwrap(folders)) > 0
                  THEN Some(Unwrap(folders)[1]) ELSE project
    /\ UNCHANGED extension
    /\ UNCHANGED <<clock, bucket_id, current_file, file_languages, send_on_open,
                   current_file_lock, file_languages_lock, task, dispatched, history>>

----------------------------------------------------------------------------
(* The handlers of the LanguageServer impl. A notification is handed to    *)
(* the first free task while main_loop is serving.                         *)

CanDispatch(t) ==
    /\ phase = "serving"
    /\ task[t].pc = "idle"
    /\ \A u \in Tasks : u < t => task[u].pc # "idle"
    /\ dispatched < MaxEvents

(* Variant: the pair is put into file_languages only when the event is   *)
(* sent                                                                    *)
DidOpen_InsertIfSent(t, url, language_id) ==
    /\ CanDispatch(t)
    /\ dispatched' = dispatched + 1
    /\ LET event == Event(UriOf(url), FALSE, Some(language_id)) IN
         /\ opened' = [x \in (DOMAIN opened) \cup {event.uri} |->
                         IF x = event.uri THEN language_id ELSE opened[x]]
         /\ file_languages' = IF send_on_open
                               THEN Insert(file_languages, event.uri, language_id)
                               ELSE file_languages
         /\ task' = [task EXCEPT ![t] =
                       IF send_on_open
                       THEN [IdleTask EXCEPT !.pc = "send_lock", !.event = event]
                       ELSE IdleTask]
    /\ UNCHANGED extension
    /\ UNCHANGED <<phase, startup_err, clock, bucket_id, send_on_open, current_file,
                   project, current_file_lock, file_languages_lock, last_suppressed,
                   unbuilt, uncalled, nonwrite_uncalled, last_heartbeat>>

(* did_open: the pair is put into file_languages; the handler then returns *)
(* or goes on to self.send(event)                                          *)
DidOpen(t, url, language_id) ==
    /\ CanDispatch(t)
    /\ dispatched' = dispatched + 1
    /\ LET event == Event(UriOf(url), FALSE, Some(language_id)) IN
         /\ opened' = [x \in (DOMAIN opened) \cup {event.uri} |->
                         IF x = event.uri THEN language_id ELSE opened[x]]
         /\ file_languages' = Insert(file_languages, event.uri, language_id)
         /\ task' = [task EXCEPT ![t] =
                       IF send_on_open
                       THEN [IdleTask EXCEPT !.pc = "send_lock", !.event = event]
                       ELSE IdleTask]
    /\ UNCHANGED extension
    /\ UNCHANGED <<phase, startup_err, clock, bucket_id, send_on_open, current_file,
                   project, current_file_lock, file_languages_lock, last_suppressed,
                   unbuilt, uncalled, nonwrite_uncalled, last_heartbeat>>

DidChange(t, url) ==
    /\ CanDispatch(t)
    /\ dispatched' = dispatched + 1
    /\ task' = [task EXCEPT ![t] =
                  [IdleTask EXCEPT !.pc = "send_lock",
                                   !.event = Event(UriOf(url), FALSE, None)]]
    /\ UNCHANGED extension
    /\ UNCHANGED <<phase, startup_err, clock, bucket_id, send_on_open, server, history>>

DidSave(t, url) ==
    /\ CanDispatch(t)
    /\ dispatched' = dispatched + 1
    /\ task' = [task EXCEPT ![t] =
                  [IdleTask EXCEPT !.pc = "send_lock",
                                   !.event = Event(UriOf(url), TRUE, None)]]
    /\ UNCHANGED extension
    /\ UNCHANGED <<phase, startup_err, clock, bucket_id, send_on_open, server, history>>

----------------------------------------------------------------------------
(* ActivityWatchLanguageServer::send *)

(* Variant: current_file taken without mutual exclusion *)
Acquire_NoMutex(owner) == TRUE

(* Mutex::lock on a mutex whose holder is owner: it returns once the mutex *)
(* is free                                                                 *)
Acquire(owner) == owner = 0

(* Variants of the debounce test: without the is_write test, without the  *)
(* uri test, with <= for <, without the test of the elapsed time          *)
Suppressed_AnyKind(event, cf, now) ==
    /\ event.uri = cf.uri
    /\ now - cf.timestamp < INTERVAL

Suppressed_AnyUri(event, cf, now) ==
    /\ now - cf.timestamp < INTERVAL
    /\ event.is_write

Suppressed_Inclusive(event, cf, now) ==
    /\ event.uri = cf.uri
    /\ now - cf.timestamp <= INTERVAL
    /\ event.is_write

Suppressed_AnyTime(event, cf, now) ==
    /\ event.uri = cf.uri
    /\ event.is_write

(* The debounce test *)
Suppressed(event, cf, now) ==
    /\ event.uri = cf.uri
    /\ now - cf.timestamp < INTERVAL
    /\ event.is_write

(* let language = match event.language { Some(l) => Some(l),               *)
(*                  None => self.file_languages.lock()...get(&event.uri) } *)
(* Variant: the entry of file_languages before the event's own language *)
Language_CacheFirst(event, languages) ==
    IF event.uri \in DOMAIN languages THEN Get(languages, event.uri) ELSE event.language

Language(event, languages) ==
    IF IsSome(event.language) THEN event.language ELSE Get(languages, event.uri)

(* Variant: the project is never inserted *)
Data_NoProject(event, proj, language) ==
    LET d0 == Insert(EmptyMap, "file", event.uri)
    IN  IF IsSome(language) THEN Insert(d0, "language", Unwrap(language)) ELSE d0

(* The data map of the heartbeat *)
Data(event, proj, language) ==
    LET d0 == Insert(EmptyMap, "file", event.uri)
        d1 == IF IsSome(proj) THEN Insert(d0, "project", Unwrap(proj)) ELSE d0
    IN  IF IsSome(language) THEN Insert(d1, "language", Unwrap(language)) ELSE d1

(* aw_client_rust::Event::new(now.to_utc(), TimeDelta::zero(), data) *)
AwEvent(timestamp, duration, data) ==
    [timestamp |-> timestamp, duration |-> duration, data |-> data]

(* Variant: the event is built before the debounce test *)
BuildEvent_BeforeTest(proceed, event, now, proj, languages) ==
    Some(AwEvent(now, 0, Data(event, proj, Language(event, languages))))

(* The event send builds once the debounce test has let it proceed; None   *)
(* when send has returned before                                           *)
BuildEvent(proceed, event, now, proj, languages) ==
    IF proceed
    THEN Some(AwEvent(now, 0, Data(event, proj, Language(event, languages))))
    ELSE None

(* 1 for a condition that holds, 0 for one that does not *)
Count(b) == IF b THEN 1 ELSE 0

(* Variant: the debounce test stores the time of the event it returns on *)
SendLock_TouchOnReturn(t) ==
    /\ task[t].pc = "send_lock"
    /\ Acquire(current_file_lock)
    /\ LET event == task[t].event
           now == clock
           proceed == ~Suppressed(event, current_file, now)
           aw_event == BuildEvent(proceed, event, now, project, file_languages)
       IN  /\ task' = [task EXCEPT ![t] =
                 IF proceed
                 THEN [pc |-> "send_heartbeat", event |-> event, now |-> now,
                       aw_event |-> aw_event,
                       cached |-> Get(file_languages, event.uri)]
                 ELSE IdleTask]
           /\ current_file' = IF proceed THEN current_file
                              ELSE CurrentFile(current_file.uri, now)
           /\ current_file_lock' = IF proceed THEN t ELSE 0
           /\ last_suppressed' = IF proceed THEN last_suppressed
                                 ELSE Some([event |-> event, now |-> now])
           /\ unbuilt' = unbuilt + Count(proceed) - Count(IsSome(aw_event))
           /\ uncalled' = uncalled + Count(IsSome(aw_event))
           /\ nonwrite_uncalled' = nonwrite_uncalled + Count(~event.is_write)
    /\ UNCHANGED extension
    /\ UNCHANGED <<phase, startup_err, clock, bucket_id, send_on_open, dispatched,
                   file_languages, file_languages_lock, project, opened,
                   last_heartbeat>>

(* From the lock of current_file to the heartbeat call: the clock is read, *)
(* the debounce test returns (dropping the guard) or the event is built.   *)
SendLock(t) ==
    /\ task[t].pc = "send_lock"
    /\ Acquire(current_file_lock)
    /\ LET event == task[t].event
           now == clock
           proceed == ~Suppressed(event, current_file, now)
           aw_event == BuildEvent(proceed, event, now, project, file_languages)
       IN  /\ task' = [task EXCEPT ![t] =
                 IF proceed
                 THEN [pc |-> "send_heartbeat", event |-> event, now |-> now,
                       aw_event |-> aw_event,
                       cached |-> Get(file_languages, event.uri)]
                 ELSE IdleTask]
           /\ current_file_lock' = IF proceed THEN t ELSE 0
           /\ last_suppressed' = IF proceed THEN last_suppressed
                                 ELSE Some([event |-> event, now |-> now])
           /\ unbuilt' = unbuilt + Count(proceed) - Count(IsSome(aw_event))
           /\ uncalled' = uncalled + Count(IsSome(aw_event))
           /\ nonwrite_uncalled' = nonwrite_uncalled + Count(~event.is_write)
    /\ UNCHANGED extension
    /\ UNCHANGED <<phase, startup_err, clock, bucket_id, send_on_open, dispatched,
                   current_file, file_languages, file_languages_lock, project, opened,
                   last_heartbeat>>

(* Variant: on Err send returns, dropping the guard, without the update *)
SendHeartbeat_ReturnOnErr(t, ok) ==
    /\ task[t].pc = "send_heartbeat"
    /\ uncalled' = uncalled - 1
    /\ nonwrite_uncalled' = nonwrite_uncalled - Count(~task[t].event.is_write)
    /\ last_heartbeat' = Some(
          [bucket_id |-> bucket_id, pulsetime |-> PULSETIME, ok |-> ok,
           file |-> Unwrap(task[t].aw_event).data["file"],
           timestamp |-> Unwrap(task[t].aw_event).timestamp])
    /\ task' = [task EXCEPT ![t] = IF ok THEN [@ EXCEPT !.pc = "send_update"]
                                         ELSE IdleTask]
    /\ current_file_lock' = IF ok THEN current_file_lock ELSE 0
    /\ UNCHANGED extension
    /\ UNCHANGED <<phase, startup_err, clock, bucket_id, send_on_open, dispatched,
                   current_file, file_languages, file_languages_lock, project, opened,
                   last_suppressed, unbuilt>>

(* Variant: after an Err the call is made again *)
SendHeartbeat_Retry(t, ok) ==
    /\ task[t].pc = "send_heartbeat"
    /\ uncalled' = uncalled - 1
    /\ nonwrite_uncalled' = nonwrite_uncalled - Count(~task[t].event.is_write)
    /\ last_heartbeat' = Some(
          [bucket_id |-> bucket_id, pulsetime |-> PULSETIME, ok |-> ok,
           file |-> Unwrap(task[t].aw_event).data["file"],
           timestamp |-> Unwrap(task[t].aw_event).timestamp])
    /\ task' = [task EXCEPT ![t].pc = IF ok THEN "send_update" ELSE "send_heartbeat"]
    /\ UNCHANGED extension
    /\ UNCHANGED <<phase, startup_err, clock, bucket_id, send_on_open, dispatched,
                   server, opened, last_suppressed, unbuilt>>

(* self.aw_client.heartbeat(&self.bucket_id, &aw_event, PULSETIME); an Err *)
(* is printed and send goes on                                             *)
SendHeartbeat(t, ok) ==
    /\ task[t].pc = "send_heartbeat"
    /\ uncalled' = uncalled - 1
    /\ nonwrite_uncalled' = nonwrite_uncalled - Count(~task[t].event.is_write)
    /\ last_heartbeat' = Some(
          [bucket_id |-> bucket_id, pulsetime |-> PULSETIME, ok |-> ok,
           file |-> Unwrap(task[t].aw_event).data["file"],
           timestamp |-> Unwrap(task[t].aw_event).timestamp])
    /\ task' = [task EXCEPT ![t].pc = "send_update"]
    /\ UNCHANGED extension
    /\ UNCHANGED <<phase, startup_err, clock, bucket_id, send_on_open, dispatched,
                   server, opened, last_suppressed, unbuilt>>

(* Variant: the update reads the clock again *)
SendUpdate_NowAgain(t) ==
    /\ task[t].pc = "send_update"
    /\ current_file' = CurrentFile(task[t].event.uri, clock)
    /\ current_file_lock' = 0
    /\ task' = [task EXCEPT ![t] = IdleTask]
    /\ UNCHANGED extension
    /\ UNCHANGED <<phase, startup_err, clock, bucket_id, send_on_open, dispatched,
                   file_languages, file_languages_lock, project, history>>

(* current_file.uri = event.uri; current_file.timestamp = now; the guard  *)
(* is dropped when send returns                                           *)
SendUpdate(t) ==
    /\ task[t].pc = "send_update"
    /\ current_file' = CurrentFile(task[t].event.uri, task[t].now)
    /\ current_file_lock' = 0
    /\ task' = [task EXCEPT ![t] = IdleTask]
    /\ UNCHANGED extension
    /\ UNCHANGED <<phase, startup_err, clock, bucket_id, send_on_open, dispatched,
                   file_languages, file_languages_lock, project, history>>

----------------------------------------------------------------------------
Next ==
    \/ Tick
    \/ \E ok \in BOOLEAN : AwClientNew(ok)
    \/ \E h \in Hostnames, ok \in BOOLEAN : CreateBucket(h, ok)
    \/ \E f \in {None} \cup {Some(l) : l \in FolderLists}, ok \in BOOLEAN :
          Initialize(f, ok)
    \/ \E t \in Tasks, u \in Urls, l \in Languages : DidOpen(t, u, l)
    \/ \E t \in Tasks, u \in Urls : DidChange(t, u)
    \/ \E t \in Tasks, u \in Urls : DidSave(t, u)
    \/ \E t \in Tasks : SendLock(t)
    \/ \E t \in Tasks, ok \in BOOLEAN : SendHeartbeat(t, ok)
    \/ \E t \in Tasks : SendUpdate(t)

Spec == Init /\ [][Next]_vars

----------------------------------------------------------------------------
(* The handlers with the two mutexes taken step by step: the lock of       *)
(* file_languages and its access are separate steps, in did_open and in    *)
(* the lookup of send, so that a handler can be seen waiting for one lock  *)
(* while it holds the other.                                               *)

(* did_open up to self.file_languages.lock() *)
DidOpenBegin(t, url, language_id) ==
    /\ CanDispatch(t)
    /\ dispatched' = dispatched + 1
    /\ task' = [task EXCEPT ![t] =
                  [IdleTask EXCEPT !.pc = "open_lock",
                                   !.event = Event(UriOf(url), FALSE, Some(language_id))]]
    /\ UNCHANGED extension
    /\ UNCHANGED <<phase, startup_err, clock, bucket_id, send_on_open, server, history>>

(* self.file_languages.lock().unwrap() in did_open *)
DidOpenLock(t) ==
    /\ task[t].pc = "open_lock"
    /\ Acquire(file_languages_lock)
    /\ file_languages_lock' = t
    /\ task' = [task EXCEPT ![t].pc = "open_insert"]
    /\ UNCHANGED extension
    /\ UNCHANGED <<phase, startup_err, clock, bucket_id, send_on_open, dispatched,
                   current_file, file_languages, project, current_file_lock, history>>

(* Variant: the guard of file_languages is kept after the insert *)
DidOpenInsert_KeepGuard(t) ==
    /\ task[t].pc = "open_insert"
    /\ file_languages' = Insert(file_languages, task[t].event.uri,
                                Unwrap(task[t].event.language))
    /\ opened' = [x \in (DOMAIN opened) \cup {task[t].event.uri} |->
                    IF x = task[t].event.uri THEN Unwrap(task[t].event.language)
                    ELSE opened[x]]
    /\ file_languages_lock' = file_languages_lock
    /\ task' = [task EXCEPT ![t] =
                  IF send_on_open THEN [@ EXCEPT !.pc = "send_lock"] ELSE IdleTask]
    /\ UNCHANGED extension
    /\ UNCHANGED <<phase, startup_err, clock, bucket_id, send_on_open, dispatched,
                   current_file, project, current_file_lock, last_suppressed,
                   unbuilt, uncalled, nonwrite_uncalled, last_heartbeat>>

(* .insert(event.uri.clone(), event.language.clone().unwrap()); the guard, *)
(* a temporary of the statement, is dropped; then did_open returns or goes *)
(* on to self.send(event)                                                  *)
DidOpenInsert(t) ==
    /\ task[t].pc = "open_insert"
    /\ file_languages' = Insert(file_languages, task[t].event.uri,
                                Unwrap(task[t].event.language))
    /\ opened' = [x \in (DOMAIN opened) \cup {task[t].event.uri} |->
                    IF x = task[t].event.uri THEN Unwrap(task[t].event.language)
                    ELSE opened[x]]
    /\ file_languages_lock' = 0
    /\ task' = [task EXCEPT ![t] =
                  IF send_on_open THEN [@ EXCEPT !.pc = "send_lock"] ELSE IdleTask]
    /\ UNCHANGED extension
    /\ UNCHANGED <<phase, startup_err, clock, bucket_id, send_on_open, dispatched,
                   current_file, project, current_file_lock, last_suppressed,
                   unbuilt, uncalled, nonwrite_uncalled, last_heartbeat>>

(* send from the lock of current_file to the match on event.language: the  *)
(* clock is read and the debounce test made; an event with a language is   *)
(* built at once, one without goes on to lock file_languages               *)
SendTest(t) ==
    /\ task[t].pc = "send_lock"
    /\ Acquire(current_file_lock)
    /\ LET event == task[t].event
           now == clock
           proceed == ~Suppressed(event, current_file, now)
           aw_event == BuildEvent(proceed /\ IsSome(event.language), event, now,
                                  project, file_languages)
       IN  /\ task' = [task EXCEPT ![t] =
                 IF proceed
                 THEN [pc |-> IF IsSome(aw_event) THEN "send_heartbeat" ELSE "lookup_lock",
                       event |-> event, now |-> now, aw_event |-> aw_event,
                       cached |-> None]
                 ELSE IdleTask]
           /\ current_file_lock' = IF proceed THEN t ELSE 0
           /\ last_suppressed' = IF proceed THEN last_suppressed
                                 ELSE Some([event |-> event, now |-> now])
           /\ unbuilt' = unbuilt + Count(proceed) - Count(IsSome(aw_event))
           /\ uncalled' = uncalled + Count(IsSome(aw_event))
           /\ nonwrite_uncalled' = nonwrite_uncalled + Count(~event.is_write)
    /\ UNCHANGED extension
    /\ UNCHANGED <<phase, startup_err, clock, bucket_id, send_on_open, dispatched,
                   current_file, file_languages, file_languages_lock, project, opened,
                   last_heartbeat>>

(* self.file_languages.lock().unwrap() in send, current_file being held *)
LookupLock(t) ==
    /\ task[t].pc = "lookup_lock"
    /\ Acquire(file_languages_lock)
    /\ file_languages_lock' = t
    /\ task' = [task EXCEPT ![t].pc = "lookup_get"]
    /\ UNCHANGED extension
    /\ UNCHANGED <<phase, startup_err, clock, bucket_id, send_on_open, dispatched,
                   current_file, file_languages, project, current_file_lock, history>>

(* .get(&event.uri).cloned(); the guard is dropped and the event built *)
LookupGet(t) ==
    /\ task[t].pc = "lookup_get"
    /\ file_languages_lock' = 0
    /\ task' = [task EXCEPT ![t] =
                  [@ EXCEPT !.pc = "send_heartbeat",
                            !.aw_event = BuildEvent(TRUE, task[t].event, task[t].now,
                                                    project, file_languages),
                            !.cached = Get(file_languages, task[t].event.uri)]]
    /\ unbuilt' = unbuilt - 1
    /\ uncalled' = uncalled + 1
    /\ UNCHANGED extension
    /\ UNCHANGED <<phase, startup_err, clock, bucket_id, send_on_open, dispatched,
                   current_file, file_languages, project, current_file_lock, opened,
                   last_suppressed, nonwrite_uncalled, last_heartbeat>>

(* The order of the locks depends on no uri and no language: the handlers  *)
(* of this specification are given one document and one language           *)
LockUrls == {u \in Urls : u.rest = "/a"}

LockLanguages == {"rust"}

(* A step of the handler task t runs *)
HandlerStep(t) ==
    \/ DidOpenLock(t)
    \/ DidOpenInsert(t)
    \/ SendTest(t)
    \/ LookupLock(t)
    \/ LookupGet(t)
    \/ \E ok \in BOOLEAN : SendHeartbeat(t, ok)
    \/ SendUpdate(t)

NextLocks ==
    \/ Tick
    \/ \E ok \in BOOLEAN : AwClientNew(ok)
    \/ \E h \in Hostnames, ok \in BOOLEAN : CreateBucket(h, ok)
    \/ \E f \in {None} \cup {Some(l) : l \in FolderLists}, ok \in BOOLEAN :
          Initialize(f, ok)
    \/ \E t \in Tasks, u \in LockUrls, l \in LockLanguages : DidOpenBegin(t, u, l)
    \/ \E t \in Tasks, u \in LockUrls : DidChange(t, u)
    \/ \E t \in Tasks, u \in LockUrls : DidSave(t, u)
    \/ \E t \in Tasks : HandlerStep(t)

(* Every handler that can take a step takes one in the end, and the        *)
(* heartbeat call returns                                                  *)
FairSpec == Init /\ [][NextLocks]_vars /\ \A t \in Tasks : WF_vars(HandlerStep(t))

----------------------------------------------------------------------------
(* The Zed extension, src/lib.rs: how it finds the binary of the language  *)
(* server. Paths, names and error messages are sequences of strings, the   *)
(* pieces format! puts together. A Result is a record: ok, and the value   *)
(* or the error.                                                           *)

Ok(x) == [ok |-> TRUE, value |-> x]

Err(e) == [ok |-> FALSE, value |-> e]

(* zed::current_platform(): (Os, Architecture) *)
Platforms == {<<"Linux", "X8664">>, <<"Mac", "Aarch64">>, <<"Linux", "X86">>}

Versions == {"v1", "v2"}

ArchName(arch) == IF arch = "Aarch64" THEN "aarch64" ELSE "x86_64"

OsName(os) ==
    IF os = "Mac" THEN "apple-darwin"
    ELSE IF os = "Linux" THEN "unknown-linux-gnu"
    ELSE "pc-windows-msvc"

(* ActivityWatchExtension::target_triple *)
TargetTriple(p) ==
    IF p[2] \in {"Aarch64", "X8664"}
    THEN Ok(<<"activitywatch-ls-", ArchName(p[2]), "-", OsName(p[1])>>)
    ELSE Err(<<"unsupported architecture: ", p[2]>>)

(* The names a worktree may have on its PATH, and worktree.which(name) *)
PlainName == <<"activitywatch-ls">>

TripleNames == {TargetTriple(p).value : p \in {q \in Platforms : TargetTriple(q).ok}}

Worktrees == SUBSET ({PlainName} \cup TripleNames)

Which(worktree, name) == IF name \in worktree THEN Some(<<"/usr/bin/">> \o name) ELSE None

(* zed::latest_github_release: an error, or a version and its asset names *)
AssetName(target_triple) == target_triple \o <<".zip">>

Releases ==
    {Err(<<"no release">>)} \cup
    {Ok([version |-> v, assets |-> {AssetName(n) : n \in a}]) :
        v \in Versions, a \in {TripleNames, {TargetTriple(<<"Mac", "Aarch64">>).value}}}

VersionDir(version) == <<"activitywatch-ls-", version>>

BinaryPath(version) == VersionDir(version) \o <<"/activitywatch-ls">>

(* fs::metadata(path).map_or(false, |stat| stat.is_file()) *)
IsFile(path, fs) == \E v \in fs : path = BinaryPath(v)

(* The outcomes of the calls download makes into its environment:          *)
(* download_file, read_dir with its entries, remove_dir_all,               *)
(* make_file_executable                                                    *)
Outcomes == [download_file : BOOLEAN, read_dir : BOOLEAN, remove_dir_all : BOOLEAN,
             make_file_executable : BOOLEAN]

(* ActivityWatchExtension::download: the Result, and the files it leaves *)
Download(p, fs, release, env) ==
    IF ~release.ok THEN [result |-> Err(release.value), files |-> fs]
    ELSE IF ~TargetTriple(p).ok THEN [result |-> TargetTriple(p), files |-> fs]
    ELSE IF AssetName(TargetTriple(p).value) \notin release.value.assets
    THEN [result |-> Err(<<"no asset found matching ">>
                         \o AssetName(TargetTriple(p).value)),
          files |-> fs]
    ELSE
      LET version == release.value.version
          binary_path == BinaryPath(version)
          present == IsFile(binary_path, fs)
          fetched == fs \cup {version}
          cleaned == IF env.remove_dir_all THEN {version} ELSE fetched
          executable == IF env.make_file_executable THEN Ok(binary_path)
                        ELSE Err(<<"make_file_executable">>)
      IN  IF present THEN [result |-> executable, files |-> fs]
          ELSE IF ~env.download_file
          THEN [result |-> Err(<<"failed to download file: ">>), files |-> fs]
          ELSE IF ~env.read_dir
          THEN [result |-> Err(<<"failed to list working directory ">>),
                files |-> fetched]
          ELSE [result |-> executable, files |-> cleaned]

(* Variant: the cached path is looked at before the worktree *)
LanguageServerBinaryPath_CachedFirst(p, worktree, cached, fs, release, env) ==
    LET plain == Which(worktree, PlainName)
        target_triple == TargetTriple(p)
        download == Download(p, fs, release, env)
        stay(result) == [result |-> result, cached |-> cached, files |-> fs,
                         downloaded |-> FALSE]
    IN  IF IsSome(cached) /\ IsFile(Unwrap(cached), fs) THEN stay(Ok(Unwrap(cached)))
        ELSE IF IsSome(plain) THEN stay(Ok(Unwrap(plain)))
        ELSE IF ~target_triple.ok THEN stay(target_triple)
        ELSE IF IsSome(Which(worktree, target_triple.value))
        THEN stay(Ok(Unwrap(Which(worktree, target_triple.value))))
        ELSE [result |-> download.result,
              cached |-> IF download.result.ok THEN Some(download.result.value)
                         ELSE cached,
              files |-> download.files,
              downloaded |-> TRUE]

(* ActivityWatchExtension::language_server_binary_path: the Result, the   *)
(* cached path and the files it leaves, and whether it called download    *)
LanguageServerBinaryPath(p, worktree, cached, fs, release, env) ==
    LET plain == Which(worktree, PlainName)
        target_triple == TargetTriple(p)
        download == Download(p, fs, release, env)
        stay(result) == [result |-> result, cached |-> cached, files |-> fs,
                         downloaded |-> FALSE]
    IN  IF IsSome(plain) THEN stay(Ok(Unwrap(plain)))
        ELSE IF ~target_triple.ok THEN stay(target_triple)
        ELSE IF IsSome(Which(worktree, target_triple.value))
        THEN stay(Ok(Unwrap(Which(worktree, target_triple.value))))
        ELSE IF IsSome(cached) /\ IsFile(Unwrap(cached), fs) THEN stay(Ok(Unwrap(cached)))
        ELSE [result |-> download.result,
              cached |-> IF download.result.ok THEN Some(download.result.value)
                         ELSE cached,
              files |-> download.files,
              downloaded |-> TRUE]

(* Extension::new, in a directory that may hold earlier downloads *)
InitExtension ==
    /\ InitServer
    /\ ~send_on_open
    /\ platform \in Platforms
    /\ cached_ls_binary_path = None
    /\ files \in SUBSET Versions
    /\ last_call = None

(* The variables of the language server, which the extension leaves alone *)
process == <<phase, clock, bucket_id, send_on_open, task, dispatched, startup_err,
             server, history>>

(* Extension::language_server_command asks for the path of the binary *)
LanguageServerCommand(worktree, release, env) ==
    LET call == LanguageServerBinaryPath(platform, worktree, cached_ls_binary_path,
                                         files, release, env)
    IN  /\ cached_ls_binary_path' = call.cached
        /\ files' = call.files
        /\ last_call' = Some([worktree |-> worktree,
                              cached |-> cached_ls_binary_path,
                              cached_is_file |-> /\ IsSome(cached_ls_binary_path)
                                                 /\ IsFile(Unwrap(cached_ls_binary_path),
                                                           files),
                              downloaded |-> call.downloaded,
                              result |-> call.result])
        /\ UNCHANGED platform
        /\ UNCHANGED process

(* A downloaded version is removed from the extension's directory from     *)
(* outside                                                                 *)
RemoveVersion(v) ==
    /\ v \in files
    /\ files' = files \ {v}
    /\ UNCHANGED <<platform, cached_ls_binary_path, last_call>>
    /\ UNCHANGED process

NextExtension ==
    \/ \E w \in Worktrees, r \in Releases, env \in Outcomes : LanguageServerCommand(w, r, env)
    \/ \E v \in Versions : RemoveVersion(v)

ExtensionSpec == InitExtension /\ [][NextExtension]_vars

----------------------------------------------------------------------------
(* Vocabulary of the properties *)

(* Task t holds the current_file lock after the debounce test let it through *)
InFlight(t) == task[t].pc \in {"send_heartbeat", "send_update"}

(* This step is task t's debounce test in send *)
Tested(t) == task[t].pc = "send_lock" /\ task'[t].pc # "send_lock"

(* ... and it let the event proceed to the heartbeat call, with its event built *)
Proceeded(t) ==
    /\ task'[t].pc = "send_heartbeat"
    /\ IsSome(task'[t].aw_event)
    /\ uncalled' = uncalled + 1

(* ... or send returned without building or calling anything *)
Returned(t) ==
    /\ task'[t].pc = "idle"
    /\ UNCHANGED <<uncalled, last_heartbeat>>

Quiescent == \A t \in Tasks : task[t].pc = "idle"

(* The suppression condition of the specification, on the values send reads *)
SameUri(event) == event.uri = current_file.uri

Elapsed(now) == now - current_file.timestamp

----------------------------------------------------------------------------
C2_FailedCallStillUpdates ==
    (/\ IsSome(last_heartbeat)
     /\ ~Unwrap(last_heartbeat).ok
     /\ \A t \in Tasks : task[t].pc # "send_update")
    => current_file = CurrentFile(Unwrap(last_heartbeat).file,
                                  Unwrap(last_heartbeat).timestamp)

(* The latest call failed, and a save of the same uri that came later,     *)
(* inside the window, was suppressed.                                      *)
C2_Witness ==
    /\ Quiescent
    /\ IsSome(last_heartbeat)
    /\ ~Unwrap(last_heartbeat).ok
    /\ IsSome(last_suppressed)
    /\ Unwrap(last_suppressed).event.uri = Unwrap(last_heartbeat).file
    /\ Unwrap(last_suppressed).now > Unwrap(last_heartbeat).timestamp
    /\ Unwrap(last_suppressed).now - Unwrap(last_heartbeat).timestamp < INTERVAL

C5_FirstEventOfAnyKindAttempts ==
    (dispatched >= 1 /\ Quiescent) => IsSome(last_heartbeat)

(* C5, amended: the first event handed to send, of any kind and at any     *)
(* time, is not suppressed and proceeds to the heartbeat call.             *)
C5_FirstSentEventProceeds ==
    [][\A t \in Tasks :
         (Tested(t) /\ last_heartbeat = None /\ last_suppressed = None)
         => Proceeded(t)]_vars

(* The first event in send is a save, less than INTERVAL after the start,  *)
(* and is on its way to the heartbeat call.                                *)
C5_Witness ==
    \E t \in Tasks :
      /\ task[t].pc = "send_heartbeat"
      /\ task[t].event.is_write
      /\ last_heartbeat = None
      /\ last_suppressed = None
      /\ current_file = NewCurrentFile(0)
      /\ Elapsed(task[t].now) < INTERVAL

(* C6: a save whose uri differs from lastUri always yields a heartbeat     *)
(* call, however short the time since the previous report.                 *)
C6_SaveOfOtherUriProceeds ==
    [][\A t \in Tasks :
         (Tested(t) /\ task[t].event.is_write /\ ~SameUri(task[t].event))
         => Proceeded(t)]_vars

(* A save of one file is on its way to the heartbeat call no time after a  *)
(* report for another file.                                                *)
C6_Witness ==
    \E t \in Tasks :
      /\ task[t].pc = "send_heartbeat"
      /\ task[t].event.is_write
      /\ current_file.uri # ""
      /\ ~SameUri(task[t].event)
      /\ Elapsed(task[t].now) = 0
      /\ IsSome(last_heartbeat)

(* C7: the language of a payload is the event's own language if it has     *)
(* one, otherwise the file_languages entry of the event's uri, otherwise   *)
(* the language key is left out.                                           *)
C7_LanguagePrecedence ==
    \A t \in Tasks : InFlight(t) =>
      LET data == Unwrap(task[t].aw_event).data
          event == task[t].event
      IN  IF IsSome(event.language)
          THEN "language" \in DOMAIN data /\ data["language"] = Unwrap(event.language)
          ELSE IF IsSome(task[t].cached)
          THEN "language" \in DOMAIN data /\ data["language"] = Unwrap(task[t].cached)
          ELSE "language" \notin DOMAIN data

(* An event carrying its own language is sent while file_languages holds   *)
(* another language for its uri.                                           *)
C7_Witness ==
    \E t \in Tasks :
      /\ InFlight(t)
      /\ IsSome(task[t].event.language)
      /\ IsSome(task[t].cached)
      /\ task[t].cached # task[t].event.language
      /\ Unwrap(task[t].aw_event).data["language"] = Unwrap(task[t].event.language)

(* C8: every payload has duration zero and a non-empty file equal to the   *)
(* event's uri, a project key exactly when project is set, and a language  *)
(* key exactly when the event or file_languages gives a language.          *)
C8_PayloadShape ==
    \A t \in Tasks : InFlight(t) =>
      LET aw == Unwrap(task[t].aw_event)
          event == task[t].event
      IN  /\ aw.duration = 0
          /\ "file" \in DOMAIN aw.data
          /\ aw.data["file"] = event.uri
          /\ aw.data["file"] # ""
          /\ "project" \in DOMAIN aw.data <=> IsSome(project)
          /\ "language" \in DOMAIN aw.data <=>
               (IsSome(event.language) \/ IsSome(task[t].cached))
          /\ DOMAIN aw.data \subseteq {"file", "project", "language"}

(* A payload with a project and without a language has been handed to the  *)
(* heartbeat call.                                                         *)
C8_Witness ==
    \E t \in Tasks :
      /\ task[t].pc = "send_update"
      /\ IsSome(project)
      /\ DOMAIN Unwrap(task[t].aw_event).data = {"file", "project"}
      /\ Unwrap(last_heartbeat).file = task[t].event.uri

(* C9: current_file.timestamp never decreases, whatever the interleaving   *)
(* of the handlers; the clock itself never decreases.                      *)
C9_TimestampMonotonic ==
    [][current_file'.timestamp >= current_file.timestamp]_vars

(* One send is about to store a later timestamp while another handler      *)
(* waits for the lock.                                                     *)
C9_Witness ==
    \E t, u \in Tasks :
      /\ task[t].pc = "send_update"
      /\ task[u].pc = "send_lock"
      /\ current_file.timestamp > 0
      /\ task[t].now > current_file.timestamp

(* C10: an event is built, and the heartbeat called, only for an event the *)
(* debounce test let proceed: events that passed the test, events built    *)
(* and heartbeat calls are equal in number, up to the event between its    *)
(* build and its call, and no other task holds a built event.              *)
C10_BuiltOnlyOnProceed ==
    /\ unbuilt = 0
    /\ uncalled = Cardinality({t \in Tasks : task[t].pc = "send_heartbeat"})
    /\ \A t \in Tasks : IsSome(task[t].aw_event) <=> InFlight(t)

(* After a suppressed save and a heartbeat call, nothing is left to build  *)
(* or to call.                                                             *)
C10_Witness ==
    /\ Quiescent
    /\ IsSome(last_suppressed)
    /\ IsSome(last_heartbeat)
    /\ unbuilt = 0
    /\ uncalled = 0

(* The steps of main between its phases *)
StartupOrder ==
    {<<"start", "connected">>, <<"connected", "bucket">>, <<"bucket", "serving">>,
     <<"start", "exited">>, <<"connected", "exited">>, <<"bucket", "exited">>}

(* Some notification has been handed to a handler or some heartbeat called *)
Served ==
    dispatched > 0 \/ ~Quiescent \/ IsSome(last_heartbeat) \/ IsSome(last_suppressed)

(* C11: notifications are handled and heartbeat calls made only once       *)
(* AwClient::new and then create_bucket_simple have returned Ok, in that   *)
(* order; when one of them returns Err main exits without serving, and no  *)
(* notification is handled nor heartbeat called, ever.                     *)
C11_ServeOnlyAfterStartup ==
    /\ [](Served => (phase = "serving" /\ startup_err = None /\ bucket_id # <<>>))
    /\ [](IsSome(startup_err) => (phase = "exited" /\ ~Served))
    /\ [][phase' # phase => <<phase, phase'>> \in StartupOrder]_vars
    /\ [][phase = "exited" => phase' = "exited"]_vars

(* AwClient::new returned Ok, create_bucket_simple returned Err, and main  *)
(* has exited with nothing served.                                         *)
C11_Witness ==
    /\ phase = "exited"
    /\ startup_err = Some("create_bucket_simple")
    /\ bucket_id # <<>>
    /\ ~Served

(* C12: a failed heartbeat call is neither retried nor fatal. A send that  *)
(* passed the debounce test makes one call, for its own event, and then,   *)
(* whatever the outcome, does nothing but the update with which it returns *)
(* and frees the current_file lock; no step makes a call but that one; and *)
(* once the send of a failed call has returned the server is still serving *)
(* with the lock free for the next event.                                  *)
C12_FailedCallOnceAndReturns ==
    /\ [][\A t \in Tasks :
            /\ (task[t].pc = "send_heartbeat" /\ task'[t] # task[t]) =>
                 /\ task'[t].pc = "send_update"
                 /\ uncalled' = uncalled - 1
                 /\ IsSome(last_heartbeat')
                 /\ Unwrap(last_heartbeat').file = task[t].event.uri
                 /\ Unwrap(last_heartbeat').timestamp = task[t].now
            /\ (task[t].pc = "send_update" /\ task'[t] # task[t]) =>
                 /\ task'[t].pc = "idle"
                 /\ current_file_lock' = 0
                 /\ UNCHANGED <<uncalled, last_heartbeat>>]_vars
    /\ [][uncalled' < uncalled =>
            \E t \in Tasks : task[t].pc = "send_heartbeat" /\ task'[t].pc = "send_update"]_vars
    /\ []((IsSome(last_heartbeat) /\ ~Unwrap(last_heartbeat).ok) =>
            /\ phase = "serving"
            /\ (\A t \in Tasks : ~InFlight(t)) => current_file_lock = 0)

(* The latest call failed, its send has returned, and a later event has    *)
(* taken the lock and is on its way to its own call.                       *)
C12_Witness ==
    /\ IsSome(last_heartbeat)
    /\ ~Unwrap(last_heartbeat).ok
    /\ uncalled = 1
    /\ \E t \in Tasks :
         /\ task[t].pc = "send_heartbeat"
         /\ current_file_lock = t
         /\ current_file = CurrentFile(Unwrap(last_heartbeat).file,
                                       Unwrap(last_heartbeat).timestamp)

FirstFolders == {l[1] : l \in {f \in FolderLists : Len(f) > 0}}

LeftByLatestCall ==
    IF IsSome(last_heartbeat)
    THEN current_file = CurrentFile(Unwrap(last_heartbeat).file,
                                    Unwrap(last_heartbeat).timestamp)
    ELSE current_file = NewCurrentFile(0)

(* C16: send reads, decides, calls and updates under the current_file      *)
(* lock: at most one task is past the debounce test and at most one        *)
(* heartbeat call is outstanding, and that task holds the lock; each send  *)
(* makes its test with no other send under way, on the current_file left   *)
(* by the send that held the lock before it, and current_file changes only *)
(* by the update of the lock holder: the calls and the final current_file  *)
(* are those of the sends run one after the other in the order of lock     *)
(* acquisition. So of two concurrent saves of one uri that take the lock   *)
(* less than INTERVAL apart, the second makes no call.                     *)
C16_SendsSerialized ==
    /\ [](Cardinality({t \in Tasks : InFlight(t)}) <= 1)
    /\ [](uncalled <= 1)
    /\ [](\A t \in Tasks : InFlight(t) <=> current_file_lock = t)
    /\ [][\A t \in Tasks : Tested(t) =>
            /\ \A u \in Tasks : ~InFlight(u)
            /\ LeftByLatestCall]_vars
    /\ [][current_file' # current_file =>
            \E t \in Tasks :
              /\ task[t].pc = "send_update"
              /\ current_file_lock = t
              /\ current_file' = CurrentFile(task[t].event.uri, task[t].now)]_vars
    /\ [][\A t \in Tasks :
            (/\ Tested(t)
             /\ task[t].event.is_write
             /\ IsSome(last_heartbeat)
             /\ Unwrap(last_heartbeat).file = task[t].event.uri
             /\ clock - Unwrap(last_heartbeat).timestamp < INTERVAL)
            => Returned(t)]_vars

(* Two saves of one uri are under way at once: one holds the lock and has  *)
(* made its call, the other waits for the lock inside the window.          *)
C16_Witness ==
    \E t, u \in Tasks :
      /\ task[t].pc = "send_update"
      /\ task[t].event.is_write
      /\ task[u].pc = "send_lock"
      /\ task[u].event.is_write
      /\ task[u].event.uri = task[t].event.uri
      /\ clock - task[t].now < INTERVAL
      /\ current_file_lock = t

(* C17: a send that returns at the debounce test changes nothing: the uri  *)
(* and the timestamp of current_file, file_languages and project are what  *)
(* they were, the lock is free again, and no event is built nor heartbeat  *)
(* called; so the window still counts from the latest report.              *)
C17_SuppressedChangesNothing ==
    [][\A t \in Tasks :
         (Tested(t) /\ task'[t].pc = "idle")
         => /\ current_file'.uri = current_file.uri
            /\ current_file'.timestamp = current_file.timestamp
            /\ file_languages' = file_languages
            /\ project' = project
            /\ current_file_lock' = 0
            /\ UNCHANGED <<unbuilt, uncalled, last_heartbeat>>
            /\ \A u \in Tasks : u # t => task'[u] = task[u]]_vars

(* A save was suppressed some time after the latest report of its uri, and *)
(* current_file still holds the timestamp of that report.                  *)
C17_Witness ==
    /\ Quiescent
    /\ IsSome(last_suppressed)
    /\ Unwrap(last_suppressed).event.uri = current_file.uri
    /\ Unwrap(last_suppressed).now > current_file.timestamp
    /\ current_file.timestamp > 0
    /\ IsSome(last_heartbeat)
    /\ Unwrap(last_heartbeat).timestamp = current_file.timestamp

(* C18, as stated: in every reachable state current_file holds the file    *)
(* and the timestamp of the payload of the latest heartbeat call, or its   *)
(* starting value when no call was made.                                   *)
C18_MirrorsInEveryState ==
    /\ IsSome(last_heartbeat) =>
         /\ current_file.uri = Unwrap(last_heartbeat).file
         /\ current_file.timestamp = Unwrap(last_heartbeat).timestamp
    /\ last_heartbeat = None => current_file = NewCurrentFile(0)

(* C18, amended: whenever no send is between its heartbeat call and its    *)
(* update, as whenever the current_file lock is free, current_file holds   *)
(* the file and the timestamp of the payload of the latest heartbeat call, *)
(* or its starting value when no call was made; the payload of a send has  *)
(* the uri of its event and the now of its debounce test, and the update   *)
(* stores that same uri and now.                                           *)
C18_MirrorsOutsideCallToUpdate ==
    /\ []((\A t \in Tasks : task[t].pc # "send_update") => LeftByLatestCall)
    /\ [](current_file_lock = 0 => LeftByLatestCall)
    /\ [](\A t \in Tasks : InFlight(t) =>
            /\ Unwrap(task[t].aw_event).timestamp = task[t].now
            /\ Unwrap(task[t].aw_event).data["file"] = task[t].event.uri)
    /\ [][\A t \in Tasks :
            (task[t].pc = "send_update" /\ task'[t].pc = "idle")
            => /\ current_file'.uri = Unwrap(last_heartbeat).file
               /\ current_file'.timestamp = Unwrap(last_heartbeat).timestamp]_vars

(* A send whose heartbeat call took time has returned: current_file holds  *)
(* the timestamp of its payload, which is earlier than the clock, and a    *)
(* file other than the one of the report before.                           *)
C18_Witness ==
    /\ current_file_lock = 0
    /\ IsSome(last_heartbeat)
    /\ current_file = CurrentFile(Unwrap(last_heartbeat).file,
                                  Unwrap(last_heartbeat).timestamp)
    /\ current_file.timestamp > 0
    /\ current_file.timestamp < clock
    /\ IsSome(last_suppressed)
    /\ Unwrap(last_suppressed).event.uri # current_file.uri

(* C19: event handling cannot deadlock. The holder of the file_languages   *)
(* lock is at its one access of the map and waits for nothing; did_open    *)
(* holds no lock but that one; send takes the file_languages lock only     *)
(* while it holds the current_file lock, never the other way round. With   *)
(* every handler step taken in the end and a heartbeat call that returns,  *)
(* every handler that was started returns, and once all have returned both *)
(* locks are free.                                                         *)
C19_NoDeadlock ==
    /\ [](\A t \in Tasks :
            file_languages_lock = t => task[t].pc \in {"open_insert", "lookup_get"})
    /\ [](\A t \in Tasks :
            task[t].pc \in {"open_lock", "open_insert"} => current_file_lock # t)
    /\ [](\A t \in Tasks :
            task[t].pc \in {"lookup_lock", "lookup_get"} => current_file_lock = t)
    /\ [](Quiescent => (current_file_lock = 0 /\ file_languages_lock = 0))
    /\ \A t \in Tasks : (task[t].pc # "idle") ~> (task[t].pc = "idle")

(* One handler holds the current_file lock and waits for the               *)
(* file_languages lock, which a did_open holds.                            *)
C19_Witness ==
    \E t, u \in Tasks :
      /\ task[t].pc = "lookup_lock"
      /\ current_file_lock = t
      /\ task[u].pc = "open_insert"
      /\ file_languages_lock = u

(* The latest call found the binary under the target triple in its worktree *)
TripleFound(c) ==
    /\ TargetTriple(platform).ok
    /\ IsSome(Which(c.worktree, TargetTriple(platform).value))

(* C20: language_server_binary_path looks in a fixed order and downloads   *)
(* last. After any call: if the worktree had activitywatch-ls, that path   *)
(* was returned; else if it had the binary named by the target triple,     *)
(* that one; else if the cached path named a file, the cached path; in     *)
(* these cases download was not called and the cached path is as before.   *)
(* download was called only when all three failed, and was called then     *)
(* whenever the platform has a target triple. After a download that        *)
(* succeeded the cached path is the path returned; after one that failed   *)
(* the cached path is as before and the error is the result.               *)
C20_ResolutionOrder ==
    IsSome(last_call) =>
      LET c == Unwrap(last_call)
          plain == Which(c.worktree, PlainName)
      IN  /\ IsSome(plain) => c.result = Ok(Unwrap(plain))
          /\ (~IsSome(plain) /\ TripleFound(c)) =>
               c.result = Ok(Unwrap(Which(c.worktree, TargetTriple(platform).value)))
          /\ (~IsSome(plain) /\ ~TripleFound(c) /\ c.cached_is_file) =>
               c.result = Ok(Unwrap(c.cached))
          /\ c.downloaded <=>
               /\ ~IsSome(plain)
               /\ ~TripleFound(c)
               /\ ~c.cached_is_file
               /\ TargetTriple(platform).ok
          /\ ~c.downloaded => cached_ls_binary_path = c.cached
          /\ (c.downloaded /\ c.result.ok) =>
               cached_ls_binary_path = Some(c.result.value)
          /\ (c.downloaded /\ ~c.result.ok) => cached_ls_binary_path = c.cached

(* The cached path named a file no more, download was called and failed:   *)
(* the error was returned and the cached path is the one of before.        *)
C20_Witness ==
    /\ IsSome(last_call)
    /\ IsSome(Unwrap(last_call).cached)
    /\ ~Unwrap(last_call).cached_is_file
    /\ Unwrap(last_call).downloaded
    /\ ~Unwrap(last_call).result.ok
    /\ cached_ls_binary_path = Unwrap(last_call).cached

====
